---- MODULE Spec2Model ----
(***************************************************************************)
(* A model of omniprofiler's three runtime classes                         *)
(*   MemoryMonitor  (src/src/monitor.js)                                   *)
(*   LeakDetector   (src/unnamed/part_004)                                 *)
(*   MemoryProfiler (src/src/profiler.js)                                  *)
(* One behaviour follows one instance (the variable `component` names its  *)
(* class): instances share no state, so the behaviours of a program that   *)
(* holds several are the interleavings of these.                           *)
(*                                                                         *)
(* Units: heapUsed is counted in whole MB, time in ms.  Quotients the code *)
(* computes in floating point are kept as exact rationals [num, den].      *)
(***************************************************************************)
EXTENDS Integers, Sequences, FiniteSets

VARIABLES
    component,      \* which class the instance of this behaviour belongs to
    now,            \* Date.now(), ms
    lastOp,         \* the operation that ran last (observation only)
    threw,          \* the last operation ended by an exception of a host callback
    ticks,          \* number of timer callbacks / direct analysis calls run so far
    monitor,        \* the MemoryMonitor's fields
    monitorTimers,  \* live setInterval timers created by MemoryMonitor.start
    alerts,         \* the onAlert calls of the last _checkMemory, in call order
    streak,         \* over-threshold checks since the last firing / under-threshold check
    overRun,        \* over-threshold checks since the last under-threshold check
    lastChecks,     \* the samples of the last two _checkMemory calls, the latest last
    alertThrew,     \* some onAlert call of the monitor has thrown so far
    detector,       \* the LeakDetector's fields
    detectorTimers, \* live setInterval timers created by LeakDetector.start
    delivered,      \* the events onLeakDetected was called with, in call order
    collected,      \* every sample _collectSample has pushed, in order
    sinkSaw,        \* detectedLeaks as each onLeakDetected call of the last analysis found it
    profiler,       \* the MemoryProfiler's fields
    samplingTimers, \* live intervals of _startContinuousProfiling
    triggerTimers,  \* live intervals of _startTriggeredProfiling
    timeouts,       \* pending auto-disable setTimeout callbacks
    taken,          \* number of samples _takeSample has pushed
    hostStopped     \* the host called stop() and neither start() nor enableProfiling() since

vars == <<component, now, lastOp, threw, ticks, monitor, monitorTimers, alerts, streak,
          overRun, lastChecks, alertThrew,
          detector, detectorTimers, delivered, collected, sinkSaw,
          profiler, samplingTimers, triggerTimers, timeouts, taken, hostStopped>>

monitorVars == <<monitor, monitorTimers, alerts, streak, overRun, lastChecks, alertThrew>>
detectorVars == <<detector, detectorTimers, delivered, collected, sinkSaw>>
profilerVars == <<profiler, samplingTimers, triggerTimers, timeouts, taken, hostStopped>>

(***************************************************************************)
(* Bounds of the model.                                                    *)
(***************************************************************************)
MaxTicks == 5
MaxConsecutive == 3
MaxWindow == 3
MaxTimers == 2
MaxTaken == 3

(***************************************************************************)
(* Generic helpers.                                                        *)
(***************************************************************************)
None == [none |-> TRUE]

Min(a, b) == IF a <= b THEN a ELSE b

Last(s) == s[Len(s)]

\* The smallest timer id that is neither live nor still held in a handle.
FreshId(used) == CHOOSE i \in 1..(Cardinality(used) + 1) : i \notin used

Count(s, x) == Cardinality({i \in 1..Len(s) : s[i] = x})

LastTwo(s) == IF Len(s) > 2 THEN SubSeq(s, Len(s) - 1, Len(s)) ELSE s

(***************************************************************************)
(* MemoryMonitor (src/src/monitor.js).                                     *)
(***************************************************************************)
DefaultAlertThresholdMB == 500
DefaultCheckIntervalMs == 30000
RapidGrowthMBPerSec == 1
DefaultMaxConsecutiveAlerts == 3

\* process.memoryUsage().heapUsed as the checks may read it, in MB.
MonitorHeap == {400, 420, 600}

\* What the host's onAlert does when called with a type: the types it throws on.
AlertTypes == {"HIGH_MEMORY", "RAPID_GROWTH"}

\* lastOp: the operation's name; for a start or stop, whether the instance was
\* running when it was called; for a check of the monitor, whether its sample was
\* over the threshold and the value of streak before it.
NoOp == [name |-> "init", wasRunning |-> FALSE, over |-> FALSE, before |-> 0]

Op(name) == [NoOp EXCEPT !.name = name]

LifecycleOp(name, wasRunning) == [NoOp EXCEPT !.name = name, !.wasRunning = wasRunning]

MemoryMonitor_new(maxAlerts) ==
    [alertThreshold |-> DefaultAlertThresholdMB,
     maxConsecutiveAlerts |-> maxAlerts,
     isRunning |-> FALSE,
     intervalId |-> 0,
     consecutiveHighMemory |-> 0,
     lastStats |-> None]

\* options.x || d: an option that is absent and one that is 0 both give the
\* default d, every other number is kept as it is.  0 stands for both here.
OrDefault(v, d) == IF v = 0 THEN d ELSE v

\* The constructor on the host's options (monitor.js:2-9); it has no other
\* statement than the assignments.
MemoryMonitor_constructor(options) ==
    [MemoryMonitor_new(OrDefault(options.maxConsecutiveAlerts, DefaultMaxConsecutiveAlerts))
        EXCEPT !.alertThreshold = OrDefault(options.alertThreshold, DefaultAlertThresholdMB)]

\* growthRate > 1024 * 1024 for growthRate = memoryDiff / timeDiff * 1000, in
\* IEEE arithmetic: x / 0 is +Infinity for x > 0, and -Infinity or NaN otherwise.
RapidGrowth(memoryDiff, timeDiff) ==
    IF timeDiff > 0 THEN memoryDiff * 1000 > RapidGrowthMBPerSec * timeDiff
    ELSE IF timeDiff = 0 THEN memoryDiff > 0
    ELSE memoryDiff * 1000 < RapidGrowthMBPerSec * timeDiff

\* _checkMemory without the reset of the counter that follows a HIGH_MEMORY alert.
MemoryMonitor_checkMemory_NoRearm(m, heapUsed, ts, bad) ==
    LET stats == [timestamp |-> ts, heapUsed |-> heapUsed]
        over == heapUsed > m.alertThreshold
        counted == IF over THEN m.consecutiveHighMemory + 1 ELSE 0
        fireHigh == over /\ counted >= m.maxConsecutiveAlerts
        throwHigh == fireHigh /\ "HIGH_MEMORY" \in bad
        m1 == [m EXCEPT !.consecutiveHighMemory = counted]
        fireRapid == /\ m.lastStats # None
                     /\ RapidGrowth(heapUsed - m.lastStats.heapUsed,
                                    ts - m.lastStats.timestamp)
        throwRapid == fireRapid /\ "RAPID_GROWTH" \in bad
        a1 == IF fireHigh THEN <<"HIGH_MEMORY">> ELSE <<>>
    IN  IF throwHigh
        THEN [m |-> m1, alerts |-> a1, threw |-> TRUE]
        ELSE IF throwRapid
        THEN [m |-> m1, alerts |-> Append(a1, "RAPID_GROWTH"), threw |-> TRUE]
        ELSE [m |-> [m1 EXCEPT !.lastStats = stats],
              alerts |-> IF fireRapid THEN Append(a1, "RAPID_GROWTH") ELSE a1,
              threw |-> FALSE]

\* _checkMemory without the else branch that resets the counter.
MemoryMonitor_checkMemory_NoReset(m, heapUsed, ts, bad) ==
    LET stats == [timestamp |-> ts, heapUsed |-> heapUsed]
        over == heapUsed > m.alertThreshold
        counted == IF over THEN m.consecutiveHighMemory + 1 ELSE m.consecutiveHighMemory
        fireHigh == over /\ counted >= m.maxConsecutiveAlerts
        throwHigh == fireHigh /\ "HIGH_MEMORY" \in bad
        m1 == [m EXCEPT !.consecutiveHighMemory =
                            IF fireHigh /\ ~throwHigh THEN 0 ELSE counted]
        fireRapid == /\ m.lastStats # None
                     /\ RapidGrowth(heapUsed - m.lastStats.heapUsed,
                                    ts - m.lastStats.timestamp)
        throwRapid == fireRapid /\ "RAPID_GROWTH" \in bad
        a1 == IF fireHigh THEN <<"HIGH_MEMORY">> ELSE <<>>
    IN  IF throwHigh
        THEN [m |-> m1, alerts |-> a1, threw |-> TRUE]
        ELSE IF throwRapid
        THEN [m |-> m1, alerts |-> Append(a1, "RAPID_GROWTH"), threw |-> TRUE]
        ELSE [m |-> [m1 EXCEPT !.lastStats = stats],
              alerts |-> IF fireRapid THEN Append(a1, "RAPID_GROWTH") ELSE a1,
              threw |-> FALSE]

\* _checkMemory on the fields m with the sample (heapUsed, ts); `bad` is the set of
\* alert types the host's onAlert throws on.  The result holds the fields after
\* the call, the onAlert calls made, and whether an exception left the method.
MemoryMonitor_checkMemory(m, heapUsed, ts, bad) ==
    LET stats == [timestamp |-> ts, heapUsed |-> heapUsed]
        over == heapUsed > m.alertThreshold
        counted == IF over THEN m.consecutiveHighMemory + 1 ELSE 0
        fireHigh == over /\ counted >= m.maxConsecutiveAlerts
        throwHigh == fireHigh /\ "HIGH_MEMORY" \in bad
        m1 == [m EXCEPT !.consecutiveHighMemory =
                            IF fireHigh /\ ~throwHigh THEN 0 ELSE counted]
        fireRapid == /\ m.lastStats # None
                     /\ RapidGrowth(heapUsed - m.lastStats.heapUsed,
                                    ts - m.lastStats.timestamp)
        throwRapid == fireRapid /\ "RAPID_GROWTH" \in bad
        a1 == IF fireHigh THEN <<"HIGH_MEMORY">> ELSE <<>>
    IN  IF throwHigh
        THEN [m |-> m1, alerts |-> a1, threw |-> TRUE]
        ELSE IF throwRapid
        THEN [m |-> m1, alerts |-> Append(a1, "RAPID_GROWTH"), threw |-> TRUE]
        ELSE [m |-> [m1 EXCEPT !.lastStats = stats],
              alerts |-> IF fireRapid THEN Append(a1, "RAPID_GROWTH") ELSE a1,
              threw |-> FALSE]

\* start() without its isRunning guard.
MemoryMonitor_start_Unguarded(m, timers) ==
    LET id == FreshId(timers \cup {m.intervalId})
    IN  [m |-> [m EXCEPT !.isRunning = TRUE, !.intervalId = id],
         timers |-> timers \cup {id}]

MemoryMonitor_start(m, timers) ==
    IF m.isRunning
    THEN [m |-> m, timers |-> timers]
    ELSE LET id == FreshId(timers \cup {m.intervalId})
         IN  [m |-> [m EXCEPT !.isRunning = TRUE, !.intervalId = id],
              timers |-> timers \cup {id}]

\* stop() clearing the counter and the last sample as well as the timer.
MemoryMonitor_stop_Reset(m, timers) ==
    IF ~m.isRunning
    THEN [m |-> m, timers |-> timers]
    ELSE [m |-> [m EXCEPT !.isRunning = FALSE, !.consecutiveHighMemory = 0,
                          !.lastStats = None],
          timers |-> timers \ {m.intervalId}]

MemoryMonitor_stop(m, timers) ==
    IF ~m.isRunning
    THEN [m |-> m, timers |-> timers]
    ELSE [m |-> [m EXCEPT !.isRunning = FALSE],
          timers |-> timers \ {m.intervalId}]

MonitorStart ==
    /\ component = "MemoryMonitor"
    /\ LET r == MemoryMonitor_start(monitor, monitorTimers)
       IN  /\ monitor' = r.m
           /\ monitorTimers' = r.timers
    /\ lastOp' = LifecycleOp("start", monitor.isRunning)
    /\ threw' = FALSE
    /\ UNCHANGED <<component, now, ticks, alerts, streak, overRun, lastChecks, alertThrew,
                   detectorVars, profilerVars>>

MonitorStop ==
    /\ component = "MemoryMonitor"
    /\ LET r == MemoryMonitor_stop(monitor, monitorTimers)
       IN  /\ monitor' = r.m
           /\ monitorTimers' = r.timers
    /\ lastOp' = LifecycleOp("stop", monitor.isRunning)
    /\ threw' = FALSE
    /\ UNCHANGED <<component, now, ticks, alerts, streak, overRun, lastChecks, alertThrew,
                   detectorVars, profilerVars>>

\* A live interval timer of the monitor fires: the callback of monitor.js:15-17.
\* dt is the time Date.now() has advanced since the previous operation.
MonitorTick ==
    /\ component = "MemoryMonitor"
    /\ ticks < MaxTicks
    /\ \E id \in monitorTimers, heapUsed \in MonitorHeap,
          dt \in {0, DefaultCheckIntervalMs}, bad \in SUBSET AlertTypes :
         LET r == MemoryMonitor_checkMemory(monitor, heapUsed, now + dt, bad)
             over == heapUsed > monitor.alertThreshold
         IN  /\ now' = now + dt
             /\ monitor' = r.m
             /\ alerts' = r.alerts
             /\ threw' = r.threw
             /\ alertThrew' = (alertThrew \/ r.threw)
             /\ streak' = IF over /\ Count(r.alerts, "HIGH_MEMORY") = 0
                          THEN streak + 1 ELSE 0
             /\ overRun' = IF over THEN overRun + 1 ELSE 0
             /\ lastChecks' = LastTwo(Append(lastChecks, [timestamp |-> now + dt,
                                                          heapUsed |-> heapUsed]))
             /\ lastOp' = [NoOp EXCEPT !.name = "checkMemory", !.over = over,
                                                !.before = streak]
    /\ ticks' = ticks + 1
    /\ UNCHANGED <<component, monitorTimers, detectorVars, profilerVars>>

MonitorNext == MonitorStart \/ MonitorStop \/ MonitorTick

(***************************************************************************)
(* IEEE numbers as exact rationals.  [num, den] with den > 0 is num/den in *)
(* lowest terms; den = 0 is NaN (num = 0), +Infinity (num = 1) or          *)
(* -Infinity (num = -1).                                                   *)
(***************************************************************************)
NaN == [num |-> 0, den |-> 0]

Abs(a) == IF a < 0 THEN -a ELSE a

Sign(a) == IF a > 0 THEN 1 ELSE IF a < 0 THEN -1 ELSE 0

RECURSIVE Gcd(_, _)
Gcd(a, b) == IF b = 0 THEN a ELSE Gcd(b, a % b)

\* num / den as JavaScript evaluates the quotient of two finite numbers.
Rat(num, den) ==
    IF den = 0 THEN [num |-> Sign(num), den |-> 0]
    ELSE LET g == Gcd(Abs(num), Abs(den))
         IN  [num |-> Sign(den) * (num \div g), den |-> Abs(den) \div g]

Whole(k) == [num |-> k, den |-> 1]

IsNaN(r) == r.den = 0 /\ r.num = 0

IsFinite(r) == r.den > 0

\* a > b; false when either is NaN.
RatGT(a, b) ==
    IF IsNaN(a) \/ IsNaN(b) THEN FALSE
    ELSE IF a.den = 0 THEN a.num = 1 /\ ~(b.den = 0 /\ b.num = 1)
    ELSE IF b.den = 0 THEN b.num = -1
    ELSE a.num * b.den > b.num * a.den

RatMul(a, b) ==
    IF IsNaN(a) \/ IsNaN(b) THEN NaN
    ELSE IF a.den = 0 \/ b.den = 0
    THEN [num |-> Sign(a.num) * Sign(b.num), den |-> 0]
    ELSE LET g1 == Gcd(Abs(a.num), b.den)
             g2 == Gcd(Abs(b.num), a.den)
         IN  Rat((a.num \div g1) * (b.num \div g2), (a.den \div g2) * (b.den \div g1))

\* a / b: x / 0 is an infinity of x's sign, 0 / 0 is NaN (operands are never -0).
RatDiv(a, b) ==
    IF IsNaN(a) \/ IsNaN(b) THEN NaN
    ELSE IF a.den = 0 THEN (IF b.den = 0 THEN NaN
                            ELSE [num |-> a.num * (IF b.num < 0 THEN -1 ELSE 1), den |-> 0])
    ELSE IF b.den = 0 THEN Whole(0)
    ELSE IF b.num = 0 THEN [num |-> Sign(a.num), den |-> 0]
    ELSE RatMul(a, [num |-> Sign(b.num) * b.den, den |-> Abs(b.num)])

RatSub(a, b) ==
    IF IsNaN(a) \/ IsNaN(b) THEN NaN
    ELSE IF a.den = 0 THEN (IF b.den = 0 /\ b.num = a.num THEN NaN ELSE a)
    ELSE IF b.den = 0 THEN [num |-> -b.num, den |-> 0]
    ELSE LET g == Gcd(a.den, b.den)
         IN  Rat(a.num * (b.den \div g) - b.num * (a.den \div g), (a.den \div g) * b.den)

\* Math.min(a, b): NaN when either is NaN.
MathMin(a, b) ==
    IF IsNaN(a) \/ IsNaN(b) THEN NaN ELSE IF RatGT(a, b) THEN b ELSE a

\* Math.round(a) = floor(a + 0.5); NaN and the infinities are returned as they are.
MathRound(a) ==
    IF a.den = 0 THEN a ELSE Whole((2 * a.num + a.den) \div (2 * a.den))

RECURSIVE SumSeq(_)
SumSeq(s) == IF s = <<>> THEN 0 ELSE s[1] + SumSeq(Tail(s))

(***************************************************************************)
(* LeakDetector (src/unnamed/part_004): the analysis of one window.        *)
(* A sample is [timestamp, heapUsed]; the other fields are never read.     *)
(***************************************************************************)
DefaultSampleWindow == 20
DefaultLeakThresholdMB == 5
DetectorCheckIntervalMs == 60000
KBPerMB == 1024
MsPerMinute == 60000
ExponentialMinSamples == 10
ExponentialHalf == 5
HighSeverityMB == 50
SuddenSpikeMB == 10
SuddenConfidence == 75
ConsistentConfidenceCap == 95
ExponentialConfidenceCap == 90
PeriodicConfidenceCap == 80
PeriodicConfidenceStep == 20
PeriodicMinSpikes == 3

\* 1024 * 100 bytes per sample, in MB.
ConsistentSlopeThreshold == Rat(100, KBPerMB)

\* growthFactor > 1.5
ExponentialFactor == Rat(3, 2)

\* rSquared > 0.7
ConsistentRSquared == Rat(7, 10)

HeapOf(samples) == [i \in 1..Len(samples) |-> samples[i].heapUsed]

\* n * sumXY - sumX * sumY of _calculateTrend, with x the 0-based index.
TrendNumerator(samples) ==
    LET y == HeapOf(samples)
        n == Len(y)
        sumX == SumSeq([i \in 1..n |-> i - 1])
        sumY == SumSeq(y)
        sumXY == SumSeq([i \in 1..n |-> (i - 1) * y[i]])
    IN  n * sumXY - sumX * sumY

\* n * sumXX - sumX * sumX of _calculateTrend.
TrendDenominator(samples) ==
    LET n == Len(samples)
        sumX == SumSeq([i \in 1..n |-> i - 1])
        sumXX == SumSeq([i \in 1..n |-> (i - 1) * (i - 1)])
    IN  n * sumXX - sumX * sumX

LeakDetector_calculateTrend(samples) ==
    LET n == Len(samples)
        sumX == SumSeq([i \in 1..n |-> i - 1])
        sumY == SumSeq(HeapOf(samples))
        slope == Rat(TrendNumerator(samples), TrendDenominator(samples))
    IN  [slope |-> slope,
         intercept |-> RatDiv(RatSub(Whole(sumY), RatMul(slope, Whole(sumX))), Whole(n))]

\* ssTot: the sum over the window of (heapUsed - avgY)^2, which is
\* (n * sumYY - sumY^2) / n.
SsTot(samples) ==
    LET y == HeapOf(samples)
        n == Len(y)
        sumY == SumSeq(y)
        sumYY == SumSeq([i \in 1..n |-> y[i] * y[i]])
    IN  Rat(n * sumYY - sumY * sumY, n)

\* ssRes: the sum of (heapUsed - (slope * i + intercept))^2.  For the line that
\* _calculateTrend returns (the only one _performLeakAnalysis passes) the sum is
\* ssTot - slope * sum((i - avgX) * (heapUsed - avgY)), the form used here since
\* the squares themselves leave TLC's integer range.  A NaN slope (a window of
\* one sample) makes every predicted value NaN.
SsRes(samples, trend) ==
    IF IsNaN(trend.slope) THEN NaN
    ELSE RatSub(SsTot(samples),
                RatMul(trend.slope, Rat(TrendNumerator(samples), Len(samples))))

RSquared(samples, trend) ==
    RatSub(Whole(1), RatDiv(SsRes(samples, trend), SsTot(samples)))

\* _detectConsistentGrowth with rSquared > 0.5 in place of rSquared > 0.7.
LeakDetector_detectConsistentGrowth_RSquaredHalf(samples, trend) ==
    LET isConsistent == RatGT(trend.slope, ConsistentSlopeThreshold)
        rSquared == RSquared(samples, trend)
    IN  [detected |-> isConsistent /\ RatGT(rSquared, Rat(1, 2)),
         confidence |-> MathMin(RatMul(rSquared, Whole(100)),
                                Whole(ConsistentConfidenceCap))]

\* _detectConsistentGrowth with the confidence capped at the exponential
\* detector's 90 in place of its own 95.
LeakDetector_detectConsistentGrowth_Cap90(samples, trend) ==
    LET isConsistent == RatGT(trend.slope, ConsistentSlopeThreshold)
        rSquared == RSquared(samples, trend)
    IN  [detected |-> isConsistent /\ RatGT(rSquared, ConsistentRSquared),
         confidence |-> MathMin(RatMul(rSquared, Whole(100)),
                                Whole(ExponentialConfidenceCap))]

LeakDetector_detectConsistentGrowth(samples, trend) ==
    LET isConsistent == RatGT(trend.slope, ConsistentSlopeThreshold)
        rSquared == RSquared(samples, trend)
    IN  [detected |-> isConsistent /\ RatGT(rSquared, ConsistentRSquared),
         confidence |-> MathMin(RatMul(rSquared, Whole(100)),
                                Whole(ConsistentConfidenceCap))]

\* _detectExponentialGrowth with growthFactor > 2 in place of growthFactor > 1.5.
LeakDetector_detectExponentialGrowth_Above2(samples) ==
    IF Len(samples) < ExponentialMinSamples
    THEN [detected |-> FALSE, confidence |-> Whole(0)]
    ELSE LET y == HeapOf(samples)
             n == Len(y)
             recent == SubSeq(y, n - ExponentialHalf + 1, n)
             earlier == SubSeq(y, n - 2 * ExponentialHalf + 1, n - ExponentialHalf)
             growthFactor == RatDiv(Rat(SumSeq(recent), Len(recent)),
                                    Rat(SumSeq(earlier), Len(earlier)))
         IN  [detected |-> RatGT(growthFactor, Whole(2)),
              confidence |-> MathMin(RatMul(RatSub(growthFactor, Whole(1)), Whole(100)),
                                     Whole(ExponentialConfidenceCap))]

LeakDetector_detectExponentialGrowth(samples) ==
    IF Len(samples) < ExponentialMinSamples
    THEN [detected |-> FALSE, confidence |-> Whole(0)]
    ELSE LET y == HeapOf(samples)
             n == Len(y)
             recent == SubSeq(y, n - ExponentialHalf + 1, n)
             earlier == SubSeq(y, n - 2 * ExponentialHalf + 1, n - ExponentialHalf)
             recentAvg == Rat(SumSeq(recent), Len(recent))
             earlierAvg == Rat(SumSeq(earlier), Len(earlier))
             growthFactor == RatDiv(recentAvg, earlierAvg)
         IN  [detected |-> RatGT(growthFactor, ExponentialFactor),
              confidence |-> MathMin(RatMul(RatSub(growthFactor, Whole(1)), Whole(100)),
                                     Whole(ExponentialConfidenceCap))]

\* current > prev * 1.2 && current > next * 1.2 for the interior samples.
LeakDetector_detectPeriodicLeaks(samples) ==
    LET y == HeapOf(samples)
        spikes == {i \in 2..(Len(y) - 1) :
                     /\ 5 * y[i] > 6 * y[i - 1]
                     /\ 5 * y[i] > 6 * y[i + 1]}
    IN  [detected |-> Cardinality(spikes) > PeriodicMinSpikes,
         confidence |-> MathMin(Whole(Cardinality(spikes) * PeriodicConfidenceStep),
                                Whole(PeriodicConfidenceCap))]

\* _detectSuddenSpikes with the 50MB of the severity rule as its threshold.
LeakDetector_detectSuddenSpikes_Over50(samples) ==
    IF Len(samples) < 2
    THEN [detected |-> FALSE, confidence |-> Whole(0)]
    ELSE LET suddenIncrease == Last(samples).heapUsed - samples[Len(samples) - 1].heapUsed
             isSudden == suddenIncrease > HighSeverityMB
         IN  [detected |-> isSudden,
              confidence |-> IF isSudden THEN Whole(SuddenConfidence) ELSE Whole(0)]

LeakDetector_detectSuddenSpikes(samples) ==
    IF Len(samples) < 2
    THEN [detected |-> FALSE, confidence |-> Whole(0)]
    ELSE LET suddenIncrease == Last(samples).heapUsed - samples[Len(samples) - 1].heapUsed
             isSudden == suddenIncrease > SuddenSpikeMB
         IN  [detected |-> isSudden,
              confidence |-> IF isSudden THEN Whole(SuddenConfidence) ELSE Whole(0)]

\* The patterns object of _performLeakAnalysis.
Patterns(samples) ==
    [consistent |-> LeakDetector_detectConsistentGrowth(samples,
                        LeakDetector_calculateTrend(samples)),
     exponential |-> LeakDetector_detectExponentialGrowth(samples),
     periodic |-> LeakDetector_detectPeriodicLeaks(samples),
     sudden |-> LeakDetector_detectSuddenSpikes(samples)]

\* The comparison with the growth left in MB against the threshold in KB.
ExceedsLeakThreshold_Unscaled(totalGrowth, leakThreshold) ==
    totalGrowth > leakThreshold

\* totalGrowth > this.leakThreshold, the threshold being held in KB.
ExceedsLeakThreshold(totalGrowth, leakThreshold) ==
    totalGrowth * KBPerMB > leakThreshold

\* The chain with a fourth rule that reports the periodic detector's finding.
Classify_WithPeriodic(patterns, totalGrowth, leakThreshold) ==
    IF patterns.consistent.detected /\ ExceedsLeakThreshold(totalGrowth, leakThreshold)
    THEN [isLeak |-> TRUE, type |-> "consistent_growth",
          confidence |-> patterns.consistent.confidence,
          severity |-> IF totalGrowth > HighSeverityMB THEN "high" ELSE "medium"]
    ELSE IF patterns.exponential.detected
    THEN [isLeak |-> TRUE, type |-> "exponential_growth",
          confidence |-> patterns.exponential.confidence, severity |-> "high"]
    ELSE IF patterns.sudden.detected
    THEN [isLeak |-> TRUE, type |-> "sudden_spike",
          confidence |-> patterns.sudden.confidence, severity |-> "medium"]
    ELSE IF patterns.periodic.detected
    THEN [isLeak |-> TRUE, type |-> "periodic",
          confidence |-> patterns.periodic.confidence, severity |-> "low"]
    ELSE [isLeak |-> FALSE, type |-> "none", confidence |-> Whole(0), severity |-> "low"]

\* The chain with the exponential rule tried before the consistent-growth rule.
Classify_ExponentialFirst(patterns, totalGrowth, leakThreshold) ==
    IF patterns.exponential.detected
    THEN [isLeak |-> TRUE, type |-> "exponential_growth",
          confidence |-> patterns.exponential.confidence, severity |-> "high"]
    ELSE IF patterns.consistent.detected /\ ExceedsLeakThreshold(totalGrowth, leakThreshold)
    THEN [isLeak |-> TRUE, type |-> "consistent_growth",
          confidence |-> patterns.consistent.confidence,
          severity |-> IF totalGrowth > HighSeverityMB THEN "high" ELSE "medium"]
    ELSE IF patterns.sudden.detected
    THEN [isLeak |-> TRUE, type |-> "sudden_spike",
          confidence |-> patterns.sudden.confidence, severity |-> "medium"]
    ELSE [isLeak |-> FALSE, type |-> "none", confidence |-> Whole(0), severity |-> "low"]

\* The chain of if / else if of part_004:98-113 on the detectors' results.
Classify(patterns, totalGrowth, leakThreshold) ==
    IF patterns.consistent.detected /\ ExceedsLeakThreshold(totalGrowth, leakThreshold)
    THEN [isLeak |-> TRUE, type |-> "consistent_growth",
          confidence |-> patterns.consistent.confidence,
          severity |-> IF totalGrowth > HighSeverityMB THEN "high" ELSE "medium"]
    ELSE IF patterns.exponential.detected
    THEN [isLeak |-> TRUE, type |-> "exponential_growth",
          confidence |-> patterns.exponential.confidence, severity |-> "high"]
    ELSE IF patterns.sudden.detected
    THEN [isLeak |-> TRUE, type |-> "sudden_spike",
          confidence |-> patterns.sudden.confidence, severity |-> "medium"]
    ELSE [isLeak |-> FALSE, type |-> "none", confidence |-> Whole(0), severity |-> "low"]

\* The object _performLeakAnalysis returns (part_004:115-123) for the classifier's
\* verdict c.
AnalysisResult(c, totalGrowth, duration) ==
    [isLeak |-> c.isLeak,
     type |-> c.type,
     severity |-> c.severity,
     confidence |-> c.confidence,
     growthRate |-> MathRound(RatMul(RatMul(Rat(totalGrowth, duration), Whole(1000)),
                                     Whole(KBPerMB))),
     totalGrowth |-> MathRound(Whole(totalGrowth)),
     duration |-> MathRound(Rat(duration, 1000))]

\* _performLeakAnalysis on a non-empty window.
LeakDetector_performLeakAnalysis(samples, leakThreshold) ==
    AnalysisResult(Classify(Patterns(samples),
                            Last(samples).heapUsed - samples[1].heapUsed,
                            leakThreshold),
                   Last(samples).heapUsed - samples[1].heapUsed,
                   Last(samples).timestamp - samples[1].timestamp)

(***************************************************************************)
(* LeakDetector: the instance, its timer and its tick.                     *)
(***************************************************************************)
\* process.memoryUsage().heapUsed as the detector's ticks may read it, in MB.
DetectorHeap == {10, 20, 40}

\* leakThreshold is held in KB: the default of part_004:4 and the 1KB of test.js:134.
DefaultLeakThreshold == DefaultLeakThresholdMB * KBPerMB

TestLeakThreshold == 1

LeakDetector_new(sampleWindow, leakThreshold) ==
    [sampleWindow |-> sampleWindow,
     leakThreshold |-> leakThreshold,
     samples |-> <<>>,
     detectedLeaks |-> <<>>,
     isRunning |-> FALSE,
     intervalId |-> 0]

\* The constructor on the host's options (part_004:2-10), leakThreshold in KB.
LeakDetector_constructor(options) ==
    LeakDetector_new(OrDefault(options.sampleWindow, DefaultSampleWindow),
                     OrDefault(options.leakThreshold, DefaultLeakThreshold))

LeakDetector_start(d, timers) ==
    IF d.isRunning
    THEN [d |-> d, timers |-> timers]
    ELSE LET id == FreshId(timers \cup {d.intervalId})
         IN  [d |-> [d EXCEPT !.isRunning = TRUE, !.intervalId = id],
              timers |-> timers \cup {id}]

LeakDetector_stop(d, timers) ==
    IF ~d.isRunning
    THEN [d |-> d, timers |-> timers]
    ELSE [d |-> [d EXCEPT !.isRunning = FALSE],
          timers |-> timers \ {d.intervalId}]

\* The window with pop() in place of shift(): the newest sample is the one evicted.
PushSample_EvictNewest(samples, sample, capacity) ==
    IF Len(samples) >= capacity THEN samples ELSE Append(samples, sample)

\* The window after push and the shift that follows it.
PushSample(samples, sample, capacity) ==
    LET pushed == Append(samples, sample)
    IN  IF Len(pushed) > capacity THEN Tail(pushed) ELSE pushed

LeakDetector_collectSample(d, heapUsed, ts) ==
    [d EXCEPT !.samples =
        PushSample(d.samples, [timestamp |-> ts, heapUsed |-> heapUsed], d.sampleWindow)]

\* The leak object of part_004:56-65.
LeakEvent(analysis, ts) ==
    [id |-> ts,
     timestamp |-> ts,
     type |-> analysis.type,
     severity |-> analysis.severity,
     growthRate |-> analysis.growthRate,
     totalGrowth |-> analysis.totalGrowth,
     duration |-> analysis.duration,
     confidence |-> analysis.confidence]

\* The report with de-duplication: a leak of the type of the last one recorded is
\* dropped.
Report_Dedup(d, analysis, ts, bad) ==
    IF /\ analysis.isLeak
       /\ (d.detectedLeaks = <<>> \/ Last(d.detectedLeaks).type # analysis.type)
    THEN [d |-> [d EXCEPT !.detectedLeaks = Append(@, LeakEvent(analysis, ts))],
          calls |-> <<LeakEvent(analysis, ts)>>,
          seen |-> <<Append(d.detectedLeaks, LeakEvent(analysis, ts))>>,
          threw |-> bad]
    ELSE [d |-> d, calls |-> <<>>, seen |-> <<>>, threw |-> FALSE]

\* The event handed to onLeakDetected first and pushed once the sink has returned.
Report_DeliverFirst(d, analysis, ts, bad) ==
    IF analysis.isLeak
    THEN [d |-> IF bad THEN d
                ELSE [d EXCEPT !.detectedLeaks = Append(@, LeakEvent(analysis, ts))],
          calls |-> <<LeakEvent(analysis, ts)>>,
          seen |-> <<d.detectedLeaks>>,
          threw |-> bad]
    ELSE [d |-> d, calls |-> <<>>, seen |-> <<>>, threw |-> FALSE]

\* part_004:55-69: the event is pushed, then handed to onLeakDetected.  `seen` is
\* detectedLeaks at the time of the call; an exception of the sink leaves the
\* method after the push.
Report(d, analysis, ts, bad) ==
    IF analysis.isLeak
    THEN [d |-> [d EXCEPT !.detectedLeaks = Append(@, LeakEvent(analysis, ts))],
          calls |-> <<LeakEvent(analysis, ts)>>,
          seen |-> <<Append(d.detectedLeaks, LeakEvent(analysis, ts))>>,
          threw |-> bad]
    ELSE [d |-> d, calls |-> <<>>, seen |-> <<>>, threw |-> FALSE]

\* _analyzeForLeaks with its guard letting every non-empty window through.
LeakDetector_analyzeForLeaks_NoWarmUp(d, ts, bad) ==
    IF Len(d.samples) = 0
    THEN [d |-> d, calls |-> <<>>, seen |-> <<>>, threw |-> FALSE]
    ELSE Report(d, LeakDetector_performLeakAnalysis(d.samples, d.leakThreshold), ts, bad)

\* _analyzeForLeaks at time ts; `bad` says whether the host's onLeakDetected throws.
\* The result holds the fields after the call, the events onLeakDetected was
\* called with, and whether an exception left the method.  An empty window that
\* passes the guard (sampleWindow below 1) makes _performLeakAnalysis read
\* heapUsed of undefined (part_004:74-77), a TypeError.
LeakDetector_analyzeForLeaks(d, ts, bad) ==
    IF Len(d.samples) < d.sampleWindow
    THEN [d |-> d, calls |-> <<>>, seen |-> <<>>, threw |-> FALSE]
    ELSE IF d.samples = <<>>
    THEN [d |-> d, calls |-> <<>>, seen |-> <<>>, threw |-> TRUE]
    ELSE Report(d, LeakDetector_performLeakAnalysis(d.samples, d.leakThreshold), ts, bad)

\* A leak as getLeakHistory returns it at time ts: its fields and the minutes
\* since its timestamp.
WithTimeAgo(leak, ts) ==
    [id |-> leak.id,
     timestamp |-> leak.timestamp,
     type |-> leak.type,
     severity |-> leak.severity,
     growthRate |-> leak.growthRate,
     totalGrowth |-> leak.totalGrowth,
     duration |-> leak.duration,
     confidence |-> leak.confidence,
     timeAgo |-> MathRound(Rat(ts - leak.timestamp, MsPerMinute))]

\* getLeakHistory returning the newest leak first.
LeakDetector_getLeakHistory_NewestFirst(d, ts) ==
    [i \in 1..Len(d.detectedLeaks) |->
        WithTimeAgo(d.detectedLeaks[Len(d.detectedLeaks) + 1 - i], ts)]

LeakDetector_getLeakHistory(d, ts) ==
    [i \in 1..Len(d.detectedLeaks) |-> WithTimeAgo(d.detectedLeaks[i], ts)]

\* The detector's fields, the sink's calls and the exception flag become r's.
DetectorBecomes(r) ==
    /\ detector' = r.d
    /\ delivered' = delivered \o r.calls
    /\ sinkSaw' = r.seen
    /\ threw' = r.threw

DetectorStart ==
    /\ component = "LeakDetector"
    /\ LET r == LeakDetector_start(detector, detectorTimers)
       IN  /\ detector' = r.d
           /\ detectorTimers' = r.timers
    /\ lastOp' = LifecycleOp("start", detector.isRunning)
    /\ threw' = FALSE
    /\ UNCHANGED <<component, now, ticks, delivered, collected, sinkSaw,
                   monitorVars, profilerVars>>

DetectorStop ==
    /\ component = "LeakDetector"
    /\ LET r == LeakDetector_stop(detector, detectorTimers)
       IN  /\ detector' = r.d
           /\ detectorTimers' = r.timers
    /\ lastOp' = LifecycleOp("stop", detector.isRunning)
    /\ threw' = FALSE
    /\ UNCHANGED <<component, now, ticks, delivered, collected, sinkSaw,
                   monitorVars, profilerVars>>

\* A live interval timer of the detector fires: the callback of part_004:16-19,
\* _collectSample and then _analyzeForLeaks, one check interval after the last.
DetectorTick ==
    /\ component = "LeakDetector"
    /\ ticks < MaxTicks
    /\ \E id \in detectorTimers, heapUsed \in DetectorHeap, bad \in BOOLEAN :
         /\ DetectorBecomes(LeakDetector_analyzeForLeaks(
                LeakDetector_collectSample(detector, heapUsed, now + DetectorCheckIntervalMs),
                now + DetectorCheckIntervalMs, bad))
         /\ collected' = Append(collected, [timestamp |-> now + DetectorCheckIntervalMs,
                                            heapUsed |-> heapUsed])
    /\ now' = now + DetectorCheckIntervalMs
    /\ ticks' = ticks + 1
    /\ lastOp' = Op("tick")
    /\ UNCHANGED <<component, detectorTimers, monitorVars, profilerVars>>

\* The host calls _analyzeForLeaks itself on the window it holds (test.js:153).
DetectorAnalyze ==
    /\ component = "LeakDetector"
    /\ ticks = 0
    /\ \E bad \in BOOLEAN : DetectorBecomes(LeakDetector_analyzeForLeaks(detector, now, bad))
    /\ ticks' = ticks + 1
    /\ lastOp' = Op("analyze")
    /\ UNCHANGED <<component, now, detectorTimers, collected, monitorVars, profilerVars>>

DetectorNext == DetectorStart \/ DetectorStop \/ DetectorTick \/ DetectorAnalyze

(***************************************************************************)
(* MemoryProfiler (src/src/profiler.js).  st is the instance with the      *)
(* timers it has created: [p, sampling, trigger, timeouts].  A sample is   *)
(* told from the others by its timestamp, the order of its collection.     *)
(***************************************************************************)
Environments == {"development", "production"}

\* config.enabled: the default of the environment unless the host's options set it.
DefaultEnabled(env) == env # "production"

MemoryProfiler_new(env, enabled, maxSamples) ==
    [env |-> env,
     config |-> [enabled |-> enabled, maxSamples |-> maxSamples],
     isEnabled |-> FALSE,
     samples |-> <<>>,
     samplingInterval |-> 0,
     triggerInterval |-> 0]

\* The constructor (profiler.js:2-9): { ...defaults[this.env], ...userOptions }
\* keeps every option the host gives, 0 included.
MemoryProfiler_constructor(env, options) ==
    MemoryProfiler_new(env, options.enabled, options.maxSamples)

MemoryProfiler_startContinuousProfiling(st) ==
    LET id == FreshId(st.sampling \cup {st.p.samplingInterval})
    IN  [st EXCEPT !.p.samplingInterval = id, !.sampling = @ \cup {id}]

MemoryProfiler_startTriggeredProfiling(st) ==
    LET id == FreshId(st.trigger \cup {st.p.triggerInterval})
    IN  [st EXCEPT !.p.triggerInterval = id, !.trigger = @ \cup {id}]

\* start() without the standby branch for production.
MemoryProfiler_start_NoStandby(st) ==
    MemoryProfiler_startContinuousProfiling([st EXCEPT !.p.isEnabled = TRUE])

MemoryProfiler_start(st) ==
    IF ~st.p.config.enabled /\ st.p.env = "production"
    THEN MemoryProfiler_startTriggeredProfiling(st)
    ELSE MemoryProfiler_startContinuousProfiling([st EXCEPT !.p.isEnabled = TRUE])

\* clearInterval on a handle whose timer is gone does nothing.
MemoryProfiler_stop(st) ==
    [st EXCEPT !.p.isEnabled = FALSE,
               !.sampling = IF st.p.samplingInterval # 0
                            THEN @ \ {st.p.samplingInterval} ELSE @]

\* The callback of the setTimeout of profiler.js:92-95 and 209-212.
AutoDisable(st) ==
    MemoryProfiler_startTriggeredProfiling(MemoryProfiler_stop(st))

MemoryProfiler_enableTemporaryProfiling(st) ==
    IF st.p.isEnabled
    THEN st
    ELSE [MemoryProfiler_startContinuousProfiling([st EXCEPT !.p.isEnabled = TRUE])
            EXCEPT !.timeouts = @ + 1]

MemoryProfiler_enableProfiling(st) ==
    IF st.p.env # "production"
    THEN st
    ELSE [MemoryProfiler_startContinuousProfiling([st EXCEPT !.p.isEnabled = TRUE])
            EXCEPT !.timeouts = @ + 1]

\* _takeSample; _checkForLeaks only writes to the console and the heap snapshot file.
MemoryProfiler_takeSample(p, ts) ==
    [p EXCEPT !.samples = PushSample(p.samples, [timestamp |-> ts], p.config.maxSamples)]

ProfilerState ==
    [p |-> profiler, sampling |-> samplingTimers, trigger |-> triggerTimers,
     timeouts |-> timeouts]

\* The instance and its timers become st, within the bound on live timers.  A
\* pending timeout counts as the trigger interval its callback will create, so
\* that the bound never keeps a pending timeout from firing.
ProfilerBecomes(st) ==
    /\ Cardinality(st.sampling) <= MaxTimers
    /\ Cardinality(st.trigger) + st.timeouts <= MaxTimers
    /\ profiler' = st.p
    /\ samplingTimers' = st.sampling
    /\ triggerTimers' = st.trigger
    /\ timeouts' = st.timeouts

ProfilerStart ==
    /\ component = "MemoryProfiler"
    /\ ProfilerBecomes(MemoryProfiler_start(ProfilerState))
    /\ hostStopped' = FALSE
    /\ lastOp' = Op("start")
    /\ UNCHANGED <<component, now, threw, ticks, taken, monitorVars, detectorVars>>

ProfilerStop ==
    /\ component = "MemoryProfiler"
    /\ ProfilerBecomes(MemoryProfiler_stop(ProfilerState))
    /\ hostStopped' = TRUE
    /\ lastOp' = Op("stop")
    /\ UNCHANGED <<component, now, threw, ticks, taken, monitorVars, detectorVars>>

ProfilerEnableProfiling ==
    /\ component = "MemoryProfiler"
    /\ ProfilerBecomes(MemoryProfiler_enableProfiling(ProfilerState))
    /\ hostStopped' = FALSE
    /\ lastOp' = Op("enableProfiling")
    /\ UNCHANGED <<component, now, threw, ticks, taken, monitorVars, detectorVars>>

\* A live sampling interval fires (profiler.js:65-69); Math.random() decides
\* whether the sample is taken.
ProfilerSamplingTick ==
    /\ component = "MemoryProfiler"
    /\ \E id \in samplingTimers, take \in BOOLEAN :
         IF take
         THEN /\ taken < MaxTaken
              /\ profiler' = MemoryProfiler_takeSample(profiler, taken + 1)
              /\ taken' = taken + 1
         ELSE UNCHANGED <<profiler, taken>>
    /\ lastOp' = Op("samplingTick")
    /\ UNCHANGED <<component, now, threw, ticks, samplingTimers, triggerTimers, timeouts,
                   hostStopped, monitorVars, detectorVars>>

\* A live trigger interval fires (profiler.js:75-82); `high` is the outcome of
\* usage.heapUsed > this.config.alertThreshold.
ProfilerTriggerTick ==
    /\ component = "MemoryProfiler"
    /\ \E id \in triggerTimers, high \in BOOLEAN :
         ProfilerBecomes(IF high
                         THEN MemoryProfiler_enableTemporaryProfiling(ProfilerState)
                         ELSE ProfilerState)
    /\ lastOp' = Op("triggerTick")
    /\ UNCHANGED <<component, now, threw, ticks, taken, hostStopped, monitorVars, detectorVars>>

\* A pending auto-disable timeout fires.
ProfilerTimeout ==
    /\ component = "MemoryProfiler"
    /\ timeouts > 0
    /\ ProfilerBecomes(AutoDisable([ProfilerState EXCEPT !.timeouts = @ - 1]))
    /\ lastOp' = Op("timeout")
    /\ UNCHANGED <<component, now, threw, ticks, taken, hostStopped, monitorVars, detectorVars>>

ProfilerNext ==
    \/ ProfilerStart
    \/ ProfilerStop
    \/ ProfilerEnableProfiling
    \/ ProfilerSamplingTick
    \/ ProfilerTriggerTick
    \/ ProfilerTimeout

(***************************************************************************)
(* The instances a behaviour may start from, and the specifications.       *)
(***************************************************************************)
InitCommon ==
    /\ now = 0
    /\ lastOp = NoOp
    /\ threw = FALSE
    /\ ticks = 0
    /\ alerts = <<>>
    /\ streak = 0
    /\ overRun = 0
    /\ lastChecks = <<>>
    /\ alertThrew = FALSE
    /\ monitorTimers = {}
    /\ detectorTimers = {}
    /\ delivered = <<>>
    /\ collected = <<>>
    /\ sinkSaw = <<>>
    /\ samplingTimers = {}
    /\ triggerTimers = {}
    /\ timeouts = 0
    /\ taken = 0
    /\ hostStopped = FALSE

InitMonitor ==
    /\ component = "MemoryMonitor"
    /\ monitor \in {MemoryMonitor_new(n) : n \in 1..MaxConsecutive}
    /\ detector = LeakDetector_new(DefaultSampleWindow, DefaultLeakThreshold)
    /\ profiler = MemoryProfiler_new("development", TRUE, 1)
    /\ InitCommon

InitDetector ==
    /\ component = "LeakDetector"
    /\ monitor = MemoryMonitor_new(MaxConsecutive)
    /\ detector \in {LeakDetector_new(w, DefaultLeakThreshold) : w \in 1..MaxWindow}
    /\ profiler = MemoryProfiler_new("development", TRUE, 1)
    /\ InitCommon

InitProfiler ==
    /\ component = "MemoryProfiler"
    /\ monitor = MemoryMonitor_new(MaxConsecutive)
    /\ detector = LeakDetector_new(DefaultSampleWindow, DefaultLeakThreshold)
    /\ profiler \in {MemoryProfiler_new(env, enabled, cap) :
                        env \in Environments, enabled \in BOOLEAN, cap \in 1..(MaxTaken - 1)}
    /\ InitCommon

Init == InitMonitor \/ InitDetector \/ InitProfiler

Next == MonitorNext \/ DetectorNext \/ ProfilerNext

Spec == Init /\ [][Next]_vars

\* The event loop runs the callback of every pending setTimeout and keeps
\* running those of the live intervals.
SpecLive ==
    /\ Spec
    /\ WF_vars(ProfilerTimeout)
    /\ WF_vars(ProfilerSamplingTick)
    /\ WF_vars(ProfilerTriggerTick)

(***************************************************************************)
(* The analysis of a window the host has filled itself, as test.js:130-158 *)
(* does: samples pushed into detector.samples 1 s apart, then one direct   *)
(* call of _analyzeForLeaks.                                               *)
(***************************************************************************)
MaxRampStep == 3
SampleSpacingMs == 1000
RampBase == 10
TestSampleWindow == 5

\* heapUsed values (MB) of the windows of 5 and, two at a time, of 10 samples.
Heap5 == {10, 14, 18, 70}

HeapPairs == {{0, 12}, {6, 12}, {4, 8}}

Ramp(n, base, d) == [i \in 1..n |-> base + (i - 1) * d]

\* A window of n samples flat at 10MB whose last sample jumps to 25MB.
Spike(n) == [i \in 1..n |-> IF i = n THEN 25 ELSE 10]

WindowHeaps ==
    [1..TestSampleWindow -> Heap5]
        \cup UNION {[1..ExponentialMinSamples -> pair] : pair \in HeapPairs}
        \cup {Ramp(n, RampBase, d) :
                n \in {TestSampleWindow, ExponentialMinSamples, DefaultSampleWindow},
                d \in 0..MaxRampStep}
        \cup {Spike(n) : n \in (2..TestSampleWindow)
                                \cup {ExponentialMinSamples, DefaultSampleWindow}}

WindowOf(heaps) ==
    [i \in 1..Len(heaps) |-> [timestamp |-> (i - 1) * SampleSpacingMs, heapUsed |-> heaps[i]]]

InitAnalysis ==
    /\ component = "LeakDetector"
    /\ monitor = MemoryMonitor_new(MaxConsecutive)
    /\ profiler = MemoryProfiler_new("development", TRUE, 1)
    /\ \E heaps \in WindowHeaps, leakThreshold \in {TestLeakThreshold, DefaultLeakThreshold} :
         /\ detector = [LeakDetector_new(Len(heaps), leakThreshold)
                            EXCEPT !.samples = WindowOf(heaps)]
         /\ now = Len(heaps) * SampleSpacingMs
    /\ lastOp = NoOp
    /\ threw = FALSE
    /\ ticks = 0
    /\ alerts = <<>>
    /\ streak = 0
    /\ overRun = 0
    /\ lastChecks = <<>>
    /\ alertThrew = FALSE
    /\ monitorTimers = {}
    /\ detectorTimers = {}
    /\ delivered = <<>>
    /\ collected = <<>>
    /\ sinkSaw = <<>>
    /\ samplingTimers = {}
    /\ triggerTimers = {}
    /\ timeouts = 0
    /\ taken = 0
    /\ hostStopped = FALSE

SpecAnalysis == InitAnalysis /\ [][DetectorAnalyze]_vars

(***************************************************************************)
(* The instances of Spec together with those the constructors build from   *)
(* options outside their meaningful range.  An option of 0 is one left out *)
(* or given as 0.                                                          *)
(***************************************************************************)
MonitorOptions ==
    [alertThreshold : {-1, 0}, maxConsecutiveAlerts : {-1, 0, 2}]

DetectorOptions ==
    [sampleWindow : {-1, 0, 2}, leakThreshold : {-1, 0}]

ProfilerOptions ==
    [enabled : BOOLEAN, maxSamples : {-1, 0, 1}]

InitConfig ==
    /\ \/ /\ component = "MemoryMonitor"
          /\ monitor \in {MemoryMonitor_constructor(o) : o \in MonitorOptions}
          /\ detector = LeakDetector_new(DefaultSampleWindow, DefaultLeakThreshold)
          /\ profiler = MemoryProfiler_new("development", TRUE, 1)
       \/ /\ component = "LeakDetector"
          /\ monitor = MemoryMonitor_new(MaxConsecutive)
          /\ detector \in {LeakDetector_constructor(o) : o \in DetectorOptions}
          /\ profiler = MemoryProfiler_new("development", TRUE, 1)
       \/ /\ component = "MemoryProfiler"
          /\ monitor = MemoryMonitor_new(MaxConsecutive)
          /\ detector = LeakDetector_new(DefaultSampleWindow, DefaultLeakThreshold)
          /\ profiler \in {MemoryProfiler_constructor(env, o) :
                              env \in Environments, o \in ProfilerOptions}
    /\ InitCommon

SpecConfig == InitConfig /\ [][Next]_vars

(***************************************************************************)
(* The claims about the running instances, checked under Spec.             *)
(***************************************************************************)

\* C1: HIGH_MEMORY hysteresis.  With maxConsecutiveAlerts = N, an over-threshold
\* check that is not yet the N-th in a row since the counter was last at 0 fires
\* no HIGH_MEMORY alert; the N-th fires exactly one and leaves
\* consecutiveHighMemory at 0, so that the next over-threshold check counts as 1.
C1_Hysteresis ==
    (component = "MemoryMonitor" /\ lastOp.name = "checkMemory" /\ lastOp.over) =>
        IF lastOp.before + 1 < monitor.maxConsecutiveAlerts
        THEN Count(alerts, "HIGH_MEMORY") = 0
        ELSE /\ Count(alerts, "HIGH_MEMORY") = 1
             /\ monitor.consecutiveHighMemory = 0

\* The last n elements of s.
LastN(s, n) == SubSeq(s, Len(s) - n + 1, Len(s))

\* The samples _takeSample has been called for so far, in order.
TakenSamples == [i \in 1..taken |-> [timestamp |-> i]]

\* C2: rolling window.  After every _collectSample (capacity sampleWindow) and
\* every _takeSample (capacity maxSamples) the samples array is no longer than
\* its capacity and holds exactly the last min(k, capacity) of the k samples
\* collected so far, oldest first.
C2_RollingWindow ==
    /\ component = "LeakDetector" =>
         /\ Len(detector.samples) <= detector.sampleWindow
         /\ detector.samples =
                LastN(collected, Min(Len(collected), detector.sampleWindow))
    /\ component = "MemoryProfiler" =>
         /\ Len(profiler.samples) <= profiler.config.maxSamples
         /\ profiler.samples =
                LastN(TakenSamples, Min(taken, profiler.config.maxSamples))

\* C2 witness: the detector has collected more samples than its window holds, so
\* the oldest have been evicted.
C2_Witness ==
    /\ component = "LeakDetector"
    /\ lastOp.name = "tick"
    /\ Len(collected) > detector.sampleWindow
    /\ Len(detector.samples) = detector.sampleWindow
    /\ detector.sampleWindow > 1

ProfilerCallbacks == {"samplingTick", "triggerTick", "timeout"}

\* C3: after the host's stop() has returned, and until the host calls start() or
\* enableProfiling() again, no timer callback of the profiler runs: no sampling
\* tick, no trigger check, no auto-disable timeout.
C3_NoCallbackAfterStop ==
    ~(component = "MemoryProfiler" /\ hostStopped /\ lastOp.name \in ProfilerCallbacks)

\* C4: start() on a running profiler is a no-op.  In the development environment
\* start() is the only operation that creates a timer, so whatever the sequence
\* of start() calls there is at most one sampling timer, and none once the host
\* has called stop().
C4_StartWhileRunningIsNoOp ==
    (component = "MemoryProfiler" /\ profiler.env = "development") =>
        /\ Cardinality(samplingTimers) <= 1
        /\ hostStopped => samplingTimers = {}

\* The instance a behaviour follows is running, with timers its live timers.
LifecycleConsistent(isRunning, intervalId, timers) ==
    /\ Cardinality(timers) = (IF isRunning THEN 1 ELSE 0)
    /\ isRunning => timers = {intervalId}

C5_Invariant ==
    /\ LifecycleConsistent(monitor.isRunning, monitor.intervalId, monitorTimers)
    /\ LifecycleConsistent(detector.isRunning, detector.intervalId, detectorTimers)
    /\ (component = "MemoryMonitor" /\ lastOp.name = "checkMemory") => monitor.isRunning
    /\ (component = "LeakDetector" /\ lastOp.name = "tick") => detector.isRunning

\* A step that is a start() on a running instance or a stop() on a stopped one
\* leaves the instance and its timers as they were.
C5_NoOpStep ==
    /\ (lastOp'.name = "start" /\ lastOp'.wasRunning) =>
            UNCHANGED <<monitor, monitorTimers, detector, detectorTimers>>
    /\ (lastOp'.name = "stop" /\ ~lastOp'.wasRunning) =>
            UNCHANGED <<monitor, monitorTimers, detector, detectorTimers>>

\* C5: lifecycle of MemoryMonitor and LeakDetector.  isRunning is true exactly
\* when one interval timer of the instance is live, never two; start() while
\* running and stop() while stopped change nothing; a tick runs only while
\* isRunning is true.
C5_Lifecycle == [](C5_Invariant) /\ [][C5_NoOpStep]_vars

\* C5 witness: start() has been called on a monitor that was already running.
C5_Witness ==
    /\ component = "MemoryMonitor"
    /\ lastOp.name = "start"
    /\ lastOp.wasRunning
    /\ ticks > 0

\* C6: a host callback that throws does not abort the tick.  No exception leaves
\* the timer callback, and the check of the monitor completes its updates:
\* consecutiveHighMemory is 0 after a HIGH_MEMORY firing and lastStats is the
\* sample of this check.
C6_CallbackExceptionCaught ==
    /\ lastOp.name \in {"checkMemory", "tick"} => ~threw
    /\ (component = "MemoryMonitor" /\ lastOp.name = "checkMemory") =>
         /\ monitor.lastStats # None
         /\ monitor.lastStats.timestamp = now
         /\ Count(alerts, "HIGH_MEMORY") > 0 => monitor.consecutiveHighMemory = 0

(***************************************************************************)
(* The claims about the analysis of one window, checked under SpecAnalysis.*)
(* _analyzeForLeaks leaves the window as it was, so after the call         *)
(* detector.samples is still the window that was analysed.                 *)
(***************************************************************************)
Analysed == component = "LeakDetector" /\ lastOp.name = "analyze"

\* The type of the event the call handed to onLeakDetected, "none" if it made no call.
EmittedType == IF delivered = <<>> THEN "none" ELSE Last(delivered).type

\* last.heapUsed - first.heapUsed of the window y, in MB.
GrowthOf(y) == Last(y) - y[1]

\* Growth g (MB) is strictly greater than leakThreshold (KB).
OverThreshold(g, leakThreshold) == g * KBPerMB > leakThreshold

\* The sums of the least-squares fit of y against the 0-based sample index.
Sxy(y) ==
    Len(y) * SumSeq([i \in 1..Len(y) |-> (i - 1) * y[i]])
        - SumSeq([i \in 1..Len(y) |-> i - 1]) * SumSeq(y)

Sxx(y) ==
    Len(y) * SumSeq([i \in 1..Len(y) |-> (i - 1) * (i - 1)])
        - SumSeq([i \in 1..Len(y) |-> i - 1]) * SumSeq([i \in 1..Len(y) |-> i - 1])

Syy(y) ==
    Len(y) * SumSeq([i \in 1..Len(y) |-> y[i] * y[i]]) - SumSeq(y) * SumSeq(y)

\* ConsistentGrowth as the claims state it: the slope of the fit is over 100KB per
\* sample index and its coefficient of determination, Sxy^2 / (Sxx * Syy), over 0.7.
ConsistentFired(y) ==
    /\ RatGT(Rat(Sxy(y), Sxx(y)), Rat(100, KBPerMB))
    /\ RatGT(RatMul(Rat(Sxy(y), Sxx(y)), Rat(Sxy(y), Syy(y))), Rat(7, 10))

\* Rule 1 of the classifier holds for the window y.
Rule1(y, leakThreshold) == ConsistentFired(y) /\ OverThreshold(GrowthOf(y), leakThreshold)

C7_Holds(patterns, rule1, type) ==
    /\ (rule1 /\ patterns.exponential.detected) => type = "consistent_growth"
    /\ (~rule1 /\ patterns.exponential.detected /\ patterns.sudden.detected) =>
            type = "exponential_growth"

\* C7: classifier precedence.  When rule 1 (ConsistentGrowth fired and totalGrowth
\* over leakThreshold) and ExponentialGrowth both hold, the event emitted is of
\* type consistent_growth; when ExponentialGrowth and SuddenSpike both fire and
\* rule 1 does not hold, it is of type exponential_growth; whichever detector has
\* the higher confidence.
C7_ClassifierPrecedence ==
    Analysed => C7_Holds(Patterns(detector.samples),
                         Rule1(HeapOf(detector.samples), detector.leakThreshold),
                         EmittedType)

C7_Case(patterns, rule1, type) ==
    /\ rule1
    /\ patterns.exponential.detected
    /\ RatGT(patterns.exponential.confidence, patterns.consistent.confidence)
    /\ type = "consistent_growth"

\* C7 witness: rule 1 and ExponentialGrowth both hold, ExponentialGrowth with the
\* higher confidence, and the event is of type consistent_growth.
C7_Witness ==
    Analysed /\ C7_Case(Patterns(detector.samples),
                        Rule1(HeapOf(detector.samples), detector.leakThreshold),
                        EmittedType)

\* The growth factor of the window y of 10 samples is 2: its later 5 samples
\* average twice its earlier 5, whose average is positive.
LaterDoublesEarlier(y) ==
    /\ Len(y) = 10
    /\ SumSeq(SubSeq(y, 1, 5)) > 0
    /\ SumSeq(SubSeq(y, 6, 10)) = 2 * SumSeq(SubSeq(y, 1, 5))

EmittedExponentialHigh ==
    /\ Len(delivered) = 1
    /\ delivered[1].type = "exponential_growth"
    /\ delivered[1].severity = "high"

\* C8 as stated: for every window of 10 samples whose later 5 average twice the
\* earlier 5, whatever the magnitude of the samples, ExponentialGrowth fires and
\* the event emitted is of type exponential_growth with severity high.
C8_Original ==
    (Analysed /\ LaterDoublesEarlier(HeapOf(detector.samples))) =>
        /\ Patterns(detector.samples).exponential.detected
        /\ EmittedExponentialHigh

\* C8 amended: for every window of 10 samples whose later 5 average twice the
\* earlier 5, whatever the magnitude of the samples, ExponentialGrowth fires; the
\* event emitted is of type exponential_growth with severity high unless rule 1
\* holds for the window, and of type consistent_growth when it does.
C8_ExponentialDoubling ==
    (Analysed /\ LaterDoublesEarlier(HeapOf(detector.samples))) =>
        /\ Patterns(detector.samples).exponential.detected
        /\ IF Rule1(HeapOf(detector.samples), detector.leakThreshold)
           THEN EmittedType = "consistent_growth"
           ELSE EmittedExponentialHigh

\* C8 witness: a window of growth factor 2 for which rule 1 does not hold has been
\* reported as exponential_growth with severity high.
C8_Witness ==
    /\ Analysed
    /\ LaterDoublesEarlier(HeapOf(detector.samples))
    /\ ~Rule1(HeapOf(detector.samples), detector.leakThreshold)
    /\ EmittedExponentialHigh

\* What the classifier emits once rule 1 has not applied.
FallsThrough(patterns, type) ==
    type = IF patterns.exponential.detected THEN "exponential_growth"
           ELSE IF patterns.sudden.detected THEN "sudden_spike"
           ELSE "none"

C9_Holds(y, leakThreshold, patterns, type) ==
    /\ type = "consistent_growth" <=> Rule1(y, leakThreshold)
    /\ type = "consistent_growth" =>
            Last(delivered).severity = IF GrowthOf(y) > 50 THEN "high" ELSE "medium"
    /\ (ConsistentFired(y) /\ ~OverThreshold(GrowthOf(y), leakThreshold)) =>
            FallsThrough(patterns, type)

\* C9: rule 1.  A consistent_growth event is emitted iff ConsistentGrowth fired
\* (slope over 100KB per sample index and R-squared over 0.7) and totalGrowth is
\* strictly greater than leakThreshold; its severity is high iff totalGrowth is
\* over 50MB and medium otherwise; when ConsistentGrowth fired with totalGrowth
\* not over leakThreshold the exponential and sudden-spike rules decide.
C9_ConsistentGrowthRule ==
    Analysed => C9_Holds(HeapOf(detector.samples), detector.leakThreshold,
                         Patterns(detector.samples), EmittedType)

\* C9 witness: ConsistentGrowth fired on a window whose growth is not over
\* leakThreshold, and the exponential rule decided.
C9_Witness ==
    /\ Analysed
    /\ ConsistentFired(HeapOf(detector.samples))
    /\ ~OverThreshold(GrowthOf(HeapOf(detector.samples)), detector.leakThreshold)
    /\ EmittedType = "exponential_growth"

\* heapUsed rises by the same amount, at least 1MB, from each sample of y to the next.
IsLinear(y) ==
    /\ Len(y) >= 2
    /\ y[2] > y[1]
    /\ \A i \in 2..Len(y) : y[i] - y[i - 1] = y[2] - y[1]

C10_Holds(y, events) ==
    /\ Len(events) = 1
    /\ events[1].type = "consistent_growth"
    /\ RatGT(events[1].confidence, Whole(90))
    /\ events[1].totalGrowth = Whole(GrowthOf(y))
    /\ (Len(y) = 20 /\ y[2] - y[1] = 1) => events[1].totalGrowth = Whole(19)
    /\ detector.detectedLeaks = events

\* C10: a full window of strictly linear growth, over 100KB per sample and in
\* total over leakThreshold, makes one _analyzeForLeaks call invoke
\* onLeakDetected exactly once, with type consistent_growth, confidence over 90
\* and totalGrowth the MB between the last and the first sample (19 for 20
\* samples rising 1MB each), and append that event to detectedLeaks.
C10_LinearGrowthReported ==
    (/\ Analysed
     /\ IsLinear(HeapOf(detector.samples))
     /\ OverThreshold(GrowthOf(HeapOf(detector.samples)), detector.leakThreshold)) =>
        C10_Holds(HeapOf(detector.samples), delivered)

\* C10 witness: the window of 20 samples rising 1MB each has been analysed under
\* the default leakThreshold and reported.
C10_Witness ==
    /\ Analysed
    /\ Len(detector.samples) = 20
    /\ IsLinear(HeapOf(detector.samples))
    /\ detector.samples[2].heapUsed - detector.samples[1].heapUsed = 1
    /\ detector.leakThreshold = DefaultLeakThreshold
    /\ Len(delivered) = 1

\* The window y is flat at 10MB except for its last sample, which is 25MB.
IsSpikeWindow(y) ==
    /\ Len(y) >= 2
    /\ Last(y) = 25
    /\ \A i \in 1..(Len(y) - 1) : y[i] = 10

C11_Holds(patterns, events) ==
    /\ patterns.sudden.detected
    /\ ~patterns.consistent.detected
    /\ ~patterns.exponential.detected
    /\ Len(events) = 1
    /\ events[1].type = "sudden_spike"
    /\ events[1].severity = "medium"
    /\ events[1].confidence = Whole(75)

\* C11 as stated: for every full window flat at 10MB whose last sample is 25MB,
\* SuddenSpike fires, ConsistentGrowth and ExponentialGrowth do not, and the event
\* emitted is of type sudden_spike with severity medium and confidence 75.
C11_Original ==
    (Analysed /\ IsSpikeWindow(HeapOf(detector.samples))) =>
        C11_Holds(Patterns(detector.samples), delivered)

\* C11 amended: the same for every such window of at least 4 samples.
C11_SpikeIsolation ==
    (Analysed /\ IsSpikeWindow(HeapOf(detector.samples)) /\ Len(detector.samples) >= 4) =>
        C11_Holds(Patterns(detector.samples), delivered)

\* C11 witness: the spike window of the default 20 samples has been analysed and
\* reported as a sudden spike.
C11_Witness ==
    /\ Analysed
    /\ IsSpikeWindow(HeapOf(detector.samples))
    /\ Len(detector.samples) = 20
    /\ EmittedType = "sudden_spike"

(***************************************************************************)
(* Further claims about the running instances, checked under Spec.         *)
(***************************************************************************)
MonitorChecked == component = "MemoryMonitor" /\ lastOp.name = "checkMemory"

\* (heapDiff / timeDiff) * 1000 > 1MB/s, the quotient as JavaScript computes it.
RateOver1MBPerSec(heapDiff, timeDiff) ==
    RatGT(RatMul(Rat(heapDiff, timeDiff), Whole(1000)), Whole(1))

\* The last check had a check before it, and the heap grew between the two at
\* more than 1MB/s.
GrewRapidly(checks) ==
    /\ Len(checks) = 2
    /\ RateOver1MBPerSec(checks[2].heapUsed - checks[1].heapUsed,
                         checks[2].timestamp - checks[1].timestamp)

\* C12: RAPID_GROWTH is evaluated on every check, whatever the HIGH_MEMORY
\* counter does: the check fires it (once) iff there was a check before it and
\* the heap grew from that check's sample to this one's at more than 1MB/s; so
\* never on the first check, and again on every check that meets the rate.
C12_RapidGrowthEveryCheck ==
    MonitorChecked =>
        /\ Count(alerts, "RAPID_GROWTH") = (IF GrewRapidly(lastChecks) THEN 1 ELSE 0)
        /\ Len(lastChecks) = 1 => Count(alerts, "RAPID_GROWTH") = 0

\* C13: a check whose sample is not over alertThreshold leaves
\* consecutiveHighMemory at 0, and HIGH_MEMORY fires only on a check that ends
\* at least maxConsecutiveAlerts over-threshold checks in a row.
C13_UnderThresholdResets ==
    MonitorChecked =>
        /\ ~lastOp.over => monitor.consecutiveHighMemory = 0
        /\ Count(alerts, "HIGH_MEMORY") > 0 => overRun >= monitor.maxConsecutiveAlerts

\* C13 witness: an under-threshold check has followed over-threshold checks that
\* had not yet fired, and the counter is back at 0.
C13_Witness ==
    /\ MonitorChecked
    /\ ~lastOp.over
    /\ lastOp.before > 0
    /\ monitor.consecutiveHighMemory = 0
    /\ monitor.maxConsecutiveAlerts > 1

\* The profiler was constructed in production with no 'enabled' override.
Standby(p) == p.env = "production" /\ p.config.enabled = DefaultEnabled(p.env)

\* The step starts continuous sampling: it creates a sampling timer or turns
\* isEnabled on.
SamplingBegins ==
    \/ ~(samplingTimers' \subseteq samplingTimers)
    \/ (profiler'.isEnabled /\ ~profiler.isEnabled)

C14_Step ==
    (component = "MemoryProfiler" /\ Standby(profiler)) =>
        /\ ~profiler.config.enabled
        /\ lastOp'.name = "start" =>
                /\ profiler'.isEnabled = profiler.isEnabled
                /\ samplingTimers' = samplingTimers
                /\ taken' = taken
                /\ Cardinality(triggerTimers') = Cardinality(triggerTimers) + 1
        /\ SamplingBegins => lastOp'.name \in {"triggerTick", "enableProfiling"}
        /\ taken' # taken => samplingTimers # {}

\* C14: production standby.  A profiler constructed in production with no
\* 'enabled' override has config.enabled false; start() leaves isEnabled as it
\* was (false on a fresh instance), takes no sample and starts only a trigger
\* check; continuous sampling begins only in a trigger check (one that saw the
\* heap over alertThreshold) or in enableProfiling().
C14_ProductionStandby == [][C14_Step]_vars

\* C14 witness: start() has been called on a fresh standby profiler, which is
\* still disabled, with a trigger check and no sampling timer.
C14_Witness ==
    /\ component = "MemoryProfiler"
    /\ Standby(profiler)
    /\ lastOp.name = "start"
    /\ ~profiler.isEnabled
    /\ samplingTimers = {}
    /\ Cardinality(triggerTimers) = 1
    /\ taken = 0

\* C15: the start/stop flag of the profiler.  Outside production start() leaves
\* isEnabled true with continuous sampling begun; stop() leaves isEnabled false
\* whatever the state it is called in; and whenever isEnabled is false no
\* continuous-sampling timer of the instance is live.
C15_StartStopFlag ==
    component = "MemoryProfiler" =>
        /\ (lastOp.name = "start" /\ profiler.env # "production") =>
                (profiler.isEnabled /\ samplingTimers # {})
        /\ lastOp.name = "stop" => ~profiler.isEnabled
        /\ ~profiler.isEnabled => samplingTimers = {}

\* The profiler is in standby: disabled, no sampling timer, a trigger check live.
InStandby == ~profiler.isEnabled /\ samplingTimers = {} /\ triggerTimers # {}

\* C16: temporary profiling always ends.  In production standby every state in
\* which profiling is on (turned on by enableProfiling() or by a trigger check)
\* is eventually followed by one in which isEnabled is false, no sampling timer
\* is live and the trigger check is running, also when enableProfiling() is
\* called again before the earlier period has expired.
C16_TemporaryProfilingEnds ==
    (component = "MemoryProfiler" /\ Standby(profiler) /\ profiler.isEnabled) ~> InStandby

(***************************************************************************)
(* Further claims about the analysis of one window, under SpecAnalysis.    *)
(***************************************************************************)

\* Of the four detectors only the periodic one fired.
OnlyPeriodicFired(patterns) ==
    /\ patterns.periodic.detected
    /\ ~patterns.consistent.detected
    /\ ~patterns.exponential.detected
    /\ ~patterns.sudden.detected

\* No event of s has type 'periodic' or 'none'.
NoPeriodicEvent(s) == \A i \in 1..Len(s) : s[i].type \notin {"periodic", "none"}

NoneFired(patterns) ==
    /\ ~patterns.consistent.detected
    /\ ~patterns.exponential.detected
    /\ ~patterns.periodic.detected
    /\ ~patterns.sudden.detected

NoEventOfType(s, type) == \A i \in 1..Len(s) : s[i].type # type

\* C18: warm-up and tiny windows.  The detectors report nothing on a window of 0
\* or 1 sample; ExponentialGrowth reports nothing on a window of fewer than 10
\* samples, so that no exponential_growth event is emitted; and while fewer than
\* sampleWindow samples have been collected, or with sampleWindow = 1, no event is
\* emitted, detectedLeaks stays empty and no exception leaves the analysis.
C18_WarmUp ==
    component = "LeakDetector" =>
        /\ NoneFired(Patterns(<<>>))
        /\ Len(detector.samples) < 2 => NoneFired(Patterns(detector.samples))
        /\ Len(detector.samples) < 10 =>
                /\ ~Patterns(detector.samples).exponential.detected
                /\ NoEventOfType(delivered, "exponential_growth")
        /\ (Len(collected) < detector.sampleWindow \/ detector.sampleWindow = 1) =>
                /\ detector.detectedLeaks = <<>>
                /\ delivered = <<>>
                /\ ~threw

\* C18 witness: a detector with sampleWindow 3 has collected 10MB and then 40MB,
\* a jump its detectors would report, and its tick has emitted nothing.
C18_Witness ==
    /\ component = "LeakDetector"
    /\ lastOp.name = "tick"
    /\ detector.sampleWindow = 3
    /\ Len(collected) = 2
    /\ collected[1].heapUsed = 10
    /\ collected[2].heapUsed = 40
    /\ delivered = <<>>

(***************************************************************************)
(* Claims about the arithmetic of the detectors, under SpecAnalysis.       *)
(***************************************************************************)

\* The heapUsed of samples -10..-5 of the window y sum to 0: their mean is 0.
EarlierMeanIsZero(y) ==
    /\ Len(y) >= 10
    /\ SumSeq(SubSeq(y, Len(y) - 9, Len(y) - 5)) = 0

\* C19: the division-by-zero guard of ExponentialGrowth.  For every window of at
\* least 10 samples whose earlier half has mean heapUsed 0,
\* _detectExponentialGrowth reports detected = false whatever the recent half
\* holds, and no exponential_growth event is emitted.
C19_ZeroEarlierMeanGuard ==
    (Analysed /\ EarlierMeanIsZero(HeapOf(detector.samples))) =>
        /\ ~LeakDetector_detectExponentialGrowth(detector.samples).detected
        /\ EmittedType # "exponential_growth"

\* Every sample of the window y has the same heapUsed.
IsFlat(y) == Len(y) >= 2 /\ \A i \in 1..Len(y) : y[i] = y[1]

C20_Holds(rSquared, consistent) ==
    /\ rSquared = Whole(0)
    /\ ~consistent.detected
    /\ IsFinite(consistent.confidence)

\* C20: zero-variance safety.  For a window whose samples all have the same
\* heapUsed, rSquared is 0 and not the undefined 0/0, ConsistentGrowth reports
\* detected = false with a well-defined confidence, and no exception is raised.
C20_ZeroVariance ==
    (Analysed /\ IsFlat(HeapOf(detector.samples))) =>
        /\ C20_Holds(RSquared(detector.samples, LeakDetector_calculateTrend(detector.samples)),
                     Patterns(detector.samples).consistent)
        /\ ~threw

\* The confidence c is a number between 0 and 100 inclusive.
InRange0To100(c) == IsFinite(c) /\ c.num >= 0 /\ c.num <= 100 * c.den

C21_Holds(patterns) ==
    /\ InRange0To100(patterns.consistent.confidence)
    /\ InRange0To100(patterns.exponential.confidence)
    /\ InRange0To100(patterns.sudden.confidence)
    /\ InRange0To100(patterns.periodic.confidence)

\* C21: every pattern detector returns, for every window of non-negative
\* samples, a confidence between 0 and 100 inclusive, whether or not it reports
\* detected, also on a window of shrinking memory.
C21_ConfidenceRange ==
    Analysed => C21_Holds(Patterns(detector.samples))

(***************************************************************************)
(* The claim about the constructors, checked under SpecConfig.             *)
(***************************************************************************)

\* C22: invalid configuration fails at construction, so that no LeakDetector
\* with sampleWindow <= 0 or a negative leakThreshold, no MemoryMonitor with a
\* negative alertThreshold or maxConsecutiveAlerts < 1 and no MemoryProfiler with
\* maxSamples <= 0 is ever running.
C22_InvalidConfigRejected ==
    /\ (component = "LeakDetector" /\ detector.isRunning) =>
            (detector.sampleWindow > 0 /\ detector.leakThreshold >= 0)
    /\ (component = "MemoryMonitor" /\ monitor.isRunning) =>
            (monitor.alertThreshold >= 0 /\ monitor.maxConsecutiveAlerts >= 1)
    /\ (component = "MemoryProfiler"
            /\ (profiler.isEnabled \/ samplingTimers # {} \/ triggerTimers # {})) =>
            profiler.config.maxSamples > 0

(***************************************************************************)
(* Claims about the detector's history, checked under Spec.                *)
(***************************************************************************)

\* The event the detector built for the entry h of the history: h without timeAgo.
EventOf(h) ==
    [id |-> h.id,
     timestamp |-> h.timestamp,
     type |-> h.type,
     severity |-> h.severity,
     growthRate |-> h.growthRate,
     totalGrowth |-> h.totalGrowth,
     duration |-> h.duration,
     confidence |-> h.confidence]

IsPrefix(s, t) == Len(s) <= Len(t) /\ SubSeq(t, 1, Len(s)) = s

C23_History(history) == [i \in 1..Len(history) |-> EventOf(history[i])] = delivered

C23_Invariant ==
    component = "LeakDetector" => C23_History(LeakDetector_getLeakHistory(detector, now))

C23_Step ==
    /\ IsPrefix(detector.detectedLeaks, detector'.detectedLeaks)
    /\ Len(detector'.detectedLeaks) <= Len(detector.detectedLeaks) + 1
    /\ Len(delivered') <= Len(delivered) + 1

\* C23: leak history is complete, ordered and append-only.  getLeakHistory()
\* returns exactly the events that were passed to onLeakDetected, in emission
\* order; each analysis cycle emits at most one event; and no earlier event is
\* ever removed, reordered or changed in any of its fields.
C23_LeakHistory == [](C23_Invariant) /\ [][C23_Step]_vars

\* C23 witness: two ticks have each emitted an event, and the history holds both.
C23_Witness ==
    /\ component = "LeakDetector"
    /\ lastOp.name = "tick"
    /\ Len(detector.detectedLeaks) >= 2
    /\ detector.detectedLeaks[1] # detector.detectedLeaks[2]

(***************************************************************************)
(* Further claims about the monitor's checks, under Spec.                  *)
(***************************************************************************)

\* The last two checks carry the same timestamp.
SameTimestamp(checks) == Len(checks) = 2 /\ checks[1].timestamp = checks[2].timestamp

\* C24: division by zero in the rapid-growth rate is resolved to 'not detected'.
\* When two consecutive checks carry the same timestamp (time difference 0) the
\* second fires no RAPID_GROWTH alert, whatever the values of heapUsed, and
\* raises no error (a check that called onAlert not at all ends without one).
C24_ZeroTimeDiff ==
    (MonitorChecked /\ SameTimestamp(lastChecks)) =>
        /\ Count(alerts, "RAPID_GROWTH") = 0
        /\ alerts = <<>> => ~threw

\* C25: counter bound.  In every state reached by checks whose onAlert handler
\* returned normally, 0 <= consecutiveHighMemory <= maxConsecutiveAlerts - 1, and
\* the counter equals the number of over-threshold checks since the later of the
\* last HIGH_MEMORY firing and the last under-threshold check.
C25_CounterBound ==
    (component = "MemoryMonitor" /\ ~alertThrew) =>
        /\ 0 <= monitor.consecutiveHighMemory
        /\ monitor.consecutiveHighMemory <= monitor.maxConsecutiveAlerts - 1
        /\ monitor.consecutiveHighMemory = streak

\* C25 witness: with no onAlert call having thrown, the check that is the
\* maxConsecutiveAlerts-th over the threshold in a row has fired HIGH_MEMORY and
\* left the counter at 0.
C25_Witness ==
    /\ MonitorChecked
    /\ ~alertThrew
    /\ monitor.maxConsecutiveAlerts > 1
    /\ lastOp.over
    /\ lastOp.before = monitor.maxConsecutiveAlerts - 1
    /\ Count(alerts, "HIGH_MEMORY") = 1
    /\ monitor.consecutiveHighMemory = 0

(***************************************************************************)
(* Further claims about the events of the analysis, under SpecAnalysis.    *)
(***************************************************************************)

\* lo < c <= hi
Within(c, lo, hi) == RatGT(c, Whole(lo)) /\ ~RatGT(c, Whole(hi)) /\ IsFinite(c)

\* The event e has one of the four pairs of type and severity the classifier
\* can produce, and a confidence in the range of its type.
WellFormedEvent(e) ==
    /\ <<e.type, e.severity>> \in {<<"consistent_growth", "medium">>,
                                   <<"consistent_growth", "high">>,
                                   <<"exponential_growth", "high">>,
                                   <<"sudden_spike", "medium">>}
    /\ e.type = "consistent_growth" => Within(e.confidence, 70, 95)
    /\ e.type = "exponential_growth" => Within(e.confidence, 50, 90)
    /\ e.type = "sudden_spike" => e.confidence = Whole(75)
    /\ IsFinite(e.confidence)
    /\ ~RatGT(Whole(50), e.confidence)
    /\ ~RatGT(e.confidence, Whole(95))

\* C26: every event in detectedLeaks has a (type, severity) pair in
\* {(consistent_growth, medium), (consistent_growth, high), (exponential_growth,
\* high), (sudden_spike, medium)}, never severity low or critical, and a
\* confidence in [50, 95]: above 70 and at most 95 for consistent_growth, above
\* 50 and at most 90 for exponential_growth, exactly 75 for sudden_spike.
C26_EventsWellFormed ==
    component = "LeakDetector" =>
        \A i \in 1..Len(detector.detectedLeaks) : WellFormedEvent(detector.detectedLeaks[i])

\* C26 witness: an exponential_growth event whose confidence lies below the cap
\* of 90 has been recorded.
C26_Witness ==
    /\ Analysed
    /\ Len(detector.detectedLeaks) = 1
    /\ detector.detectedLeaks[1].type = "exponential_growth"
    /\ RatGT(Whole(90), detector.detectedLeaks[1].confidence)

(***************************************************************************)
(* Further claims about the profiler's timers, under Spec.                 *)
(***************************************************************************)

\* C27: in production the profiler never has more than one trigger-check timer
\* active.  Each return to standby (the auto-disable timeout of a trigger firing
\* or of enableProfiling()) replaces the previous trigger timer instead of adding
\* one: after it, at most one _startTriggeredProfiling interval is live.
C27_OneTriggerTimer ==
    (component = "MemoryProfiler" /\ profiler.env = "production"
        /\ lastOp.name = "timeout") => Cardinality(triggerTimers) <= 1

(***************************************************************************)
(* Further claims about the running detector, under Spec.                  *)
(***************************************************************************)
DetectorAnalysed == component = "LeakDetector" /\ lastOp.name \in {"tick", "analyze"}

\* The sink, called with event, found history as detectedLeaks, and the
\* detector holds that history after the call.
RecordedBeforeDelivery(history, event, leaks) ==
    /\ history # <<>>
    /\ Last(history) = event
    /\ leaks = history

\* C28: the detector records an event before delivering it.  At the moment the
\* sink runs, the event is already the last element of detectedLeaks; and if the
\* sink throws, the event remains in detectedLeaks and the sample window is as
\* _collectSample left it.
C28_RecordBeforeDeliver ==
    DetectorAnalysed =>
        /\ threw => sinkSaw # <<>>
        /\ sinkSaw # <<>> =>
                RecordedBeforeDelivery(sinkSaw[1], Last(delivered), detector.detectedLeaks)
        /\ detector.samples = LastN(collected, Min(Len(collected), detector.sampleWindow))

\* C28 witness: the sink has thrown on the second event of a detector, and the
\* history holds both events.
C28_Witness ==
    /\ component = "LeakDetector"
    /\ lastOp.name = "tick"
    /\ threw
    /\ Len(detector.detectedLeaks) = 2
    /\ Last(detector.detectedLeaks) = Last(delivered)

(***************************************************************************)
(* The frame of the monitor's stop() and start(), under Spec.              *)
(***************************************************************************)

\* The check of this step reached its rapid-growth block: no HIGH_MEMORY call of
\* onAlert threw before it.
RapidEvaluated == ~(threw' /\ alerts' # <<>> /\ Last(alerts') = "HIGH_MEMORY")

C29_Step ==
    component = "MemoryMonitor" =>
        /\ lastOp'.name \in {"start", "stop"} =>
                /\ monitor'.consecutiveHighMemory = monitor.consecutiveHighMemory
                /\ monitor'.lastStats = monitor.lastStats
        /\ (lastOp'.name = "checkMemory" /\ lastOp'.over
                /\ monitor.consecutiveHighMemory + 1 >= monitor.maxConsecutiveAlerts) =>
                Count(alerts', "HIGH_MEMORY") = 1
        /\ (lastOp'.name = "checkMemory" /\ monitor.lastStats # None /\ RapidEvaluated) =>
                (Count(alerts', "RAPID_GROWTH") = 1 <=>
                    RateOver1MBPerSec(
                        Last(lastChecks').heapUsed - monitor.lastStats.heapUsed,
                        Last(lastChecks').timestamp - monitor.lastStats.timestamp))

\* C29: stop() and a later start() of the monitor leave consecutiveHighMemory
\* and lastStats unchanged.  The streak continues across the pair: a check whose
\* sample is over the threshold fires HIGH_MEMORY when the counter it finds is
\* maxConsecutiveAlerts - 1, also as the first check after a restart; and every
\* rapid-growth evaluation compares against the lastStats it finds, after a
\* restart the last sample taken before stop().
C29_StopStartFrame == [][C29_Step]_vars

\* C29 witness: a monitor that was stopped with a streak one short of
\* maxConsecutiveAlerts has been started again and still holds the streak and
\* the last sample.
C29_Witness ==
    /\ component = "MemoryMonitor"
    /\ lastOp.name = "start"
    /\ ~lastOp.wasRunning
    /\ monitor.isRunning
    /\ monitor.maxConsecutiveAlerts > 1
    /\ monitor.consecutiveHighMemory = monitor.maxConsecutiveAlerts - 1
    /\ monitor.lastStats # None

(***************************************************************************)
(* The full window of the running detector, under Spec.                    *)
(***************************************************************************)
C30_Invariant ==
    component = "LeakDetector" =>
        /\ Len(collected) >= detector.sampleWindow =>
                /\ Len(detector.samples) = detector.sampleWindow
                /\ Last(detector.samples) = Last(collected)
        /\ Len(detector.detectedLeaks) <= Len(collected)
        /\ Len(delivered) = Len(detector.detectedLeaks)

\* The step has recorded and delivered one event if the window is a leak, none
\* otherwise.
EventsAdded(isLeak) ==
    /\ Len(detector'.detectedLeaks) = Len(detector.detectedLeaks) + (IF isLeak THEN 1 ELSE 0)
    /\ Len(delivered') = Len(delivered) + (IF isLeak THEN 1 ELSE 0)

C30_Step ==
    (component = "LeakDetector" /\ lastOp'.name = "tick"
        /\ Len(collected') >= detector.sampleWindow) =>
        EventsAdded(LeakDetector_performLeakAnalysis(detector'.samples,
                                                     detector.leakThreshold).isLeak)

\* C30: once the window has reached sampleWindow samples it stays exactly full
\* after every later tick, and every tick from then on analyses the window that
\* includes the sample collected in that tick: each tick whose window shows a
\* leak adds one event to detectedLeaks and makes one onLeakDetected call, with
\* no de-duplication, so that a pattern persisting over k ticks gives k events;
\* and the number of events never exceeds the number of ticks.
C30_FullWindowPersists == [](C30_Invariant) /\ [][C30_Step]_vars

\* C30 witness: the first two ticks on a full window have each reported the
\* same type of leak.
C30_Witness ==
    /\ component = "LeakDetector"
    /\ lastOp.name = "tick"
    /\ Len(collected) = detector.sampleWindow + 1
    /\ Len(detector.detectedLeaks) = 2
    /\ detector.detectedLeaks[1].type = detector.detectedLeaks[2].type
    /\ Len(delivered) = 2

====
